---- MODULE Spec2Model ----
(***************************************************************************)
(* Bootstrap path of the Wazuh API daemon: the configuration resolver and  *)
(* TLS bootstrap of api/api/configuration.py and the daemon controller of  *)
(* api/scripts/wazuh-apid.py.                                              *)
(*                                                                         *)
(* Strings are sequences of tokens: "logs/api.log" is <<"logs","api.log">> *)
(* and an absolute path starts with the token "/".  Every value of a       *)
(* configuration document is a record [tag, v, m]: tag is the Python type, *)
(* v the payload of a scalar, m the entries of a mapping.                  *)
(***************************************************************************)
EXTENDS Integers, Sequences, FiniteSets, TLC

VARIABLES
    cfgFile,    \* the override file at config_file: [kind, doc]
    files,      \* the filesystem: path -> content, for the files that exist
    results,    \* the outcomes of the resolutions made so far (SpecResolve)
    procs,      \* the process table: pid -> process record
    nextPid,    \* the next pid the operating system hands out
    invoked,    \* how many command lines have been run
    spawned     \* how many other programs have been started

vars == <<cfgFile, files, results, procs, nextPid, invoked, spawned>>

----------------------------------------------------------------------------
(* Values of a configuration document *)

EmptyMap == [k \in {} |-> <<>>]

Str(s) == [tag |-> "str", v |-> s, m |-> EmptyMap]

Bool(b) == [tag |-> "bool", v |-> IF b THEN <<"true">> ELSE <<"false">>, m |-> EmptyMap]

Num(n) == [tag |-> "num", v |-> <<n>>, m |-> EmptyMap]

Null == [tag |-> "null", v |-> <<>>, m |-> EmptyMap]

Map(f) == [tag |-> "map", v |-> <<>>, m |-> f]

\* Python truth value of a document value
Truthy(x) ==
    CASE x.tag = "bool" -> x.v = <<"true">>
      [] x.tag = "str"  -> x.v # <<>>
      [] x.tag = "num"  -> x.v \notin {<<"0">>, <<"0.0">>}
      [] x.tag = "map"  -> DOMAIN x.m # {}
      [] OTHER          -> FALSE

\* str.lower() on one token
LowerTok(t) ==
    CASE t = "LocalHost"  -> "localhost"
      [] t = "YES"        -> "yes"
      [] t = "DEBUG"      -> "debug"
      [] t = "Custom"     -> "custom"
      [] t = "Server.KEY" -> "server.key"
      [] t = "Server.CRT" -> "server.crt"
      [] OTHER            -> t

\* str.lower()
lower(s) == [i \in DOMAIN s |-> LowerTok(s[i])]

\* common.ossec_path, the installation base directory
ossec_path == <<"/", "var", "ossec">>

\* os.path.join(a, b): an absolute b discards a
path_join(a, b) == IF b # <<>> /\ b[1] = "/" THEN b ELSE a \o b

\* api.constants.CONFIG_PATH
CONFIG_PATH == path_join(path_join(ossec_path, <<"api">>), <<"configuration">>)

default_configuration ==
    [k \in {"host", "port", "basic_auth", "behind_proxy_server", "rbac", "https", "logs",
            "cors", "cache", "use_only_authd", "drop_privileges", "experimental_features"} |->
        CASE k = "host" -> Str(<<"0.0.0.0">>)
          [] k = "port" -> Num("55000")
          [] k = "basic_auth" -> Bool(TRUE)
          [] k = "behind_proxy_server" -> Bool(FALSE)
          [] k = "rbac" -> Map([j \in {"mode"} |-> Str(<<"black">>)])
          [] k = "https" -> Map([j \in {"enabled", "key", "cert", "use_ca", "ca"} |->
                CASE j = "enabled" -> Bool(TRUE)
                  [] j = "key" -> Str(<<"api", "configuration", "ssl", "server.key">>)
                  [] j = "cert" -> Str(<<"api", "configuration", "ssl", "server.crt">>)
                  [] j = "use_ca" -> Bool(FALSE)
                  [] OTHER -> Str(<<"api", "configuration", "ssl", "ca.crt">>)])
          [] k = "logs" -> Map([j \in {"level", "path"} |->
                IF j = "level" THEN Str(<<"info">>) ELSE Str(<<"logs", "api.log">>)])
          [] k = "cors" -> Bool(TRUE)
          [] k = "cache" -> Map([j \in {"enabled", "debug", "time"} |->
                IF j = "time" THEN Num("0.750") ELSE Bool(FALSE)])
          [] k = "use_only_authd" -> Bool(FALSE)
          [] k = "drop_privileges" -> Bool(TRUE)
          [] OTHER -> Bool(FALSE)]

----------------------------------------------------------------------------
(* The configuration resolver, api/api/configuration.py *)

RECURSIVE dict_to_lowercase(_)
dict_to_lowercase(mydict) ==
    [k \in DOMAIN mydict |->
        IF mydict[k].tag = "map" THEN Map(dict_to_lowercase(mydict[k].m))
        ELSE IF mydict[k].tag = "str" THEN Str(lower(mydict[k].v))
        ELSE mydict[k]]

\* {**a, **b}
DictMerge(a, b) == [k \in DOMAIN a \cup DOMAIN b |-> IF k \in DOMAIN b THEN b[k] ELSE a[k]]

\* The outcome of a call: status "ok" or the exception class raised
Raise(status, code, details) ==
    [status |-> status, code |-> code, details |-> details, config |-> EmptyMap]

Return(config) == [status |-> "ok", code |-> 0, details |-> {}, config |-> config]

UnknownKeyCode == 2000

IOFailureCode == 2004

TLSErrorCode == 2003

\* fill_dict reporting every key of the override instead of the unknown ones
fill_dict_all_keys(default, config) ==
    IF \E k \in DOMAIN config : k \notin DOMAIN default
    THEN Raise("APIException", UnknownKeyCode, DOMAIN config)
    ELSE Return(DictMerge(default, config))

\* fill_dict with the fields of a nested mapping of the defaults winning over the override's
fill_dict_defaults_first(default, config) ==
    IF \E k \in DOMAIN config : k \notin DOMAIN default
    THEN Raise("APIException", UnknownKeyCode, DOMAIN config \ DOMAIN default)
    ELSE IF \E k \in DOMAIN config : config[k].tag = "map" /\ default[k].tag # "map"
    THEN Raise("TypeError", 0, {})
    ELSE Return(DictMerge(default,
            [k \in DOMAIN config |->
                IF config[k].tag = "map" THEN Map(DictMerge(config[k].m, default[k].m))
                ELSE config[k]]))

\* Lines 51-59
fill_dict(default, config) ==
    IF \E k \in DOMAIN config : k \notin DOMAIN default
    THEN Raise("APIException", UnknownKeyCode, DOMAIN config \ DOMAIN default)
    ELSE IF \E k \in DOMAIN config : config[k].tag = "map" /\ default[k].tag # "map"
    THEN Raise("TypeError", 0, {})
    ELSE Return(DictMerge(default,
            [k \in DOMAIN config |->
                IF config[k].tag = "map" THEN Map(DictMerge(default[k].m, config[k].m))
                ELSE config[k]]))

path_fields == << <<"logs", "path">>, <<"https", "key">>, <<"https", "cert">>, <<"https", "ca">> >>

RECURSIVE append_ossec_path(_, _)
append_ossec_path(dictionary, fields) ==
    IF fields = <<>> THEN Return(dictionary)
    ELSE LET section == fields[1][1]
             subsection == fields[1][2]
         IN  IF dictionary[section].tag # "map" THEN Raise("TypeError", 0, {})
             ELSE IF subsection \notin DOMAIN dictionary[section].m THEN Raise("KeyError", 0, {})
             ELSE IF dictionary[section].m[subsection].tag # "str" THEN Raise("TypeError", 0, {})
             ELSE append_ossec_path(
                    [dictionary EXCEPT ![section] =
                        Map([dictionary[section].m EXCEPT ![subsection] =
                            Str(path_join(ossec_path, dictionary[section].m[subsection].v))])],
                    Tail(fields))

\* os.path.exists
exists(fs, path) == path \in DOMAIN fs

\* open(path, 'wb').write(content)
write_file(fs, path, content) ==
    [p \in DOMAIN fs \cup {path} |-> IF p = path THEN content ELSE fs[p]]

\* The content of a key or certificate file is the name of the key pair it belongs to;
\* a generated pair is "generated", the pairs an operator installed are "pairA" and "pairB".
generate_private_key(fs) ==
    write_file(fs, path_join(CONFIG_PATH, <<"ssl", "server.key">>), "generated")

generate_self_signed_certificate(fs) ==
    write_file(generate_private_key(fs), path_join(CONFIG_PATH, <<"ssl", "server.crt">>), "generated")

\* Lines 147-154: the override file is read and parsed
load_configuration(cf) ==
    CASE cf.kind = "ioerror"   -> Raise("APIException", IOFailureCode, {})
      [] cf.kind = "yamlerror" -> Raise("YAMLError", 0, {})
      [] cf.kind = "doc"       -> Return(cf.doc)
      [] OTHER                 -> Return(EmptyMap)

\* Lines 156-161 without the test of line 157 for a file that parses to null
merged_configuration_null_as_document(cf) ==
    IF cf.kind = "absent" THEN Return(default_configuration)
    ELSE IF cf.kind = "null" THEN Raise("AttributeError", 0, {})
    ELSE LET loaded == load_configuration(cf)
         IN  IF loaded.status # "ok" THEN loaded
             ELSE fill_dict(default_configuration, dict_to_lowercase(loaded.config))

\* Lines 156-161: None (an absent file, or one that parses to null) means the defaults
merged_configuration(cf) ==
    IF cf.kind \in {"absent", "null"} THEN Return(default_configuration)
    ELSE LET loaded == load_configuration(cf)
         IN  IF loaded.status # "ok" THEN loaded
             ELSE fill_dict(default_configuration, dict_to_lowercase(loaded.config))

\* Lines 166-168: the condition under which the self-signed certificate is generated
needs_certificate(configuration, fs) ==
    /\ Truthy(configuration["https"].m["enabled"])
    /\ \/ ~exists(fs, configuration["https"].m["key"].v)
       \/ ~exists(fs, configuration["https"].m["cert"].v)

\* read_api_config: [res |-> the value returned or the exception raised,
\*                   files |-> the filesystem it leaves]
read_api_config(cf, fs) ==
    LET merged == merged_configuration(cf)
    IN  IF merged.status # "ok" THEN [res |-> merged, files |-> fs]
        ELSE LET configuration == append_ossec_path(merged.config, path_fields)
             IN  IF configuration.status # "ok" THEN [res |-> configuration, files |-> fs]
                 ELSE [res |-> configuration,
                       files |-> IF needs_certificate(configuration.config, fs)
                                 THEN generate_self_signed_certificate(fs)
                                 ELSE fs]

----------------------------------------------------------------------------
(* The override documents and filesystems the resolver is run on *)

MaxOverrideKeys == 2

MaxNestedKeys == 2

MaxResolves == 2

Range(f) == {f[k] : k \in DOMAIN f}

\* The mappings that give at most n of the fields of fieldValues, each one of its values
SubMaps(fieldValues, n) ==
    UNION {{f \in [S -> UNION Range(fieldValues)] : \A k \in S : f[k] \in fieldValues[k]} :
            S \in {T \in SUBSET DOMAIN fieldValues : Cardinality(T) <= n}}

HttpsFieldValues ==
    [j \in {"enabled", "key", "cert"} |->
        CASE j = "enabled" -> {Bool(TRUE), Bool(FALSE), Str(<<"YES">>)}
          [] j = "key" -> {Str(<<"Custom", "Server.KEY">>), Str(<<"/", "etc", "ssl", "server.key">>),
                           Num("1")}
          [] OTHER -> {Str(<<"Custom", "Server.CRT">>)}]

LogsFieldValues ==
    [j \in {"level", "path"} |->
        IF j = "level" THEN {Str(<<"DEBUG">>)} ELSE {Str(<<"logs", "Custom.log">>)}]

OverrideValues ==
    [k \in {"port", "host", "https", "logs", "cors", "HTTPS", "bogus"} |->
        CASE k = "port" -> {Num("9999")}
          [] k = "host" -> {Str(<<"LocalHost">>)}
          [] k = "https" -> {Null, Bool(FALSE)}
                            \cup {Map(f) : f \in SubMaps(HttpsFieldValues, MaxNestedKeys)}
          [] k = "logs" -> {Str(<<"DEBUG">>)}
                           \cup {Map(f) : f \in SubMaps(LogsFieldValues, MaxNestedKeys)}
          [] k = "cors" -> {Bool(FALSE), Map([j \in {"enabled"} |-> Bool(TRUE)])}
          [] k = "HTTPS" -> {Map([j \in {"Enabled"} |-> Bool(FALSE)])}
          [] OTHER -> {Num("1")}]

OverrideDocs == SubMaps(OverrideValues, MaxOverrideKeys)

ConfigFiles ==
    {[kind |-> k, doc |-> EmptyMap] : k \in {"absent", "null", "ioerror", "yamlerror"}}
    \cup {[kind |-> "doc", doc |-> d] : d \in OverrideDocs}

DefaultKeyPath == path_join(ossec_path, default_configuration["https"].m["key"].v)

DefaultCertPath == path_join(ossec_path, default_configuration["https"].m["cert"].v)

CustomKeyPath == path_join(ossec_path, <<"custom", "server.key">>)

CustomCertPath == path_join(ossec_path, <<"custom", "server.crt">>)

\* The credential files an operator may have installed before the program runs
InstalledFiles(pairs) ==
    UNION {[S -> pairs] : S \in SUBSET {DefaultKeyPath, DefaultCertPath, CustomKeyPath, CustomCertPath}}

NoProcs == [p \in {} |-> <<>>]

InitResolve ==
    /\ cfgFile \in ConfigFiles
    /\ files \in InstalledFiles({"pairA"})
    /\ results = <<>>
    /\ procs = NoProcs
    /\ nextPid = 1
    /\ invoked = 0
    /\ spawned = 0

\* One call of read_api_config on the files as they are
Resolve ==
    /\ Len(results) < MaxResolves
    /\ LET r == read_api_config(cfgFile, files)
       IN  /\ results' = Append(results, [res |-> r.res, before |-> files, after |-> r.files])
           /\ files' = r.files
    /\ UNCHANGED <<cfgFile, procs, nextPid, invoked, spawned>>

NextResolve == Resolve

SpecResolve == InitResolve /\ [][NextResolve]_vars

----------------------------------------------------------------------------
(* The daemon controller, api/scripts/wazuh-apid.py *)

MaxInvocations == 2

MaxOthers == 1

ConflictExitCode == 2

LogFilePath == path_join(ossec_path, <<"logs", "api.log">>)

NoArgs == [action |-> "none", foreground |-> FALSE, root |-> FALSE, test_config |-> FALSE]

\* A process of the table.  name and script are what the scan reads (the process name and
\* whether the command line holds 'wazuh-apid.py'); steps, wrote, pids, termSent, killSent
\* and aliveAfter record what the command has done so far.
NewProc(name, script, role, pc, args) ==
    [alive |-> TRUE, name |-> name, script |-> script, role |-> role, pc |-> pc, args |-> args,
     code |-> 0, err |-> "none", errcode |-> 0, sig |-> "none",
     steps |-> <<>>, wrote |-> {}, cfg |-> EmptyMap, ssl |-> "unset",
     pids |-> {}, todo |-> <<>>, aliveAfter |-> {},
     termSent |-> {}, killSent |-> {}]

Pids == DOMAIN procs

Alive(q) == q \in Pids /\ procs[q].alive

\* An ended process is collected before anything else happens: whether its entry is still
\* in the table makes no difference to any other step
Collected == \A q \in Pids : procs[q].alive

\* Process p can take a step
Runs(p) == Collected /\ Alive(p)

\* The paths whose content differs between two filesystems
Changed(fs1, fs2) ==
    {f \in DOMAIN fs1 \cup DOMAIN fs2 :
        ~(f \in DOMAIN fs1 /\ f \in DOMAIN fs2 /\ fs1[f] = fs2[f])}

\* A set of pids as the list process_iter yields it, by ascending pid
RECURSIVE SortedSeq(_)
SortedSeq(S) ==
    IF S = {} THEN <<>>
    ELSE LET least == CHOOSE x \in S : \A y \in S : x <= y
         IN  <<least>> \o SortedSeq(S \ {least})

\* sys.exit(code), or an uncaught exception err (code 1)
Exited(rec, code, err, errcode) ==
    [rec EXCEPT !.alive = FALSE, !.pc = "exited", !.code = code, !.err = err, !.errcode = errcode]

Step(rec, name) == [rec EXCEPT !.steps = Append(@, name)]

\* The scan comparing the process name with the script's name: it finds nothing
get_pids_by_script_name(self) ==
    {q \in Pids : procs[q].alive /\ q # self /\ procs[q].name = "wazuh-apid.py" /\ procs[q].script}

get_wazuh_apid_pids(self) ==
    {q \in Pids : procs[q].alive /\ q # self /\ procs[q].name = "python3" /\ procs[q].script}

\* Lines 254-268: the function the parsed arguments select
dispatch(args) ==
    CASE args.action = "start"       -> "start_scan"
      [] args.action = "stop"        -> "stop_scan"
      [] args.action = "restart"     -> "stop_scan"
      [] args.action = "status"      -> "status"
      [] args.action = "test_config" -> "test_config"
      [] OTHER                       -> "version"

Actions == {"start", "stop", "restart", "status", "test_config", "version"}

\* The command lines tried: -f is read by start and restart alone, -r is tried with start,
\* and -t with start, stop and test_config and without -f and -r
CommandLines ==
    {a \in [action : Actions, foreground : BOOLEAN, root : BOOLEAN, test_config : BOOLEAN] :
        /\ a.foreground => a.action \in {"start", "restart"}
        /\ a.root => a.action = "start"
        /\ a.test_config => a.action \in {"start", "stop", "test_config"}
        /\ a.test_config => ~a.foreground /\ ~a.root}

\* The command line is run: `wazuh-apid.py [action] [-f] [-r] [-t]`
Invoke(args) ==
    /\ invoked < MaxInvocations
    /\ invoked' = invoked + 1
    /\ procs' = [q \in Pids \cup {nextPid} |->
                    IF q = nextPid THEN NewProc("python3", TRUE, "cli", dispatch(args), args)
                    ELSE procs[q]]
    /\ nextPid' = nextPid + 1
    /\ UNCHANGED <<cfgFile, files, results, spawned>>

\* Commands are run one after another: the shell has collected the last command's exit
\* status (or the command serves in the foreground) before the next one is typed
InvokeSequential ==
    /\ Collected
    /\ \A q \in Pids : procs[q].role = "cli" => procs[q].alive /\ procs[q].pc = "serving"
    /\ \E args \in CommandLines : Invoke(args)

\* start without the exit of line 64
StartScanWithoutExit(p) ==
    /\ Runs(p) /\ procs[p].pc = "start_scan"
    /\ procs' = [procs EXCEPT ![p] =
            [Step(procs[p], "start_scan") EXCEPT !.pids = get_wazuh_apid_pids(p),
                                                !.pc = "start_daemonize"]]
    /\ UNCHANGED <<cfgFile, files, results, nextPid, invoked, spawned>>

\* start, lines 61-64
StartScan(p) ==
    /\ Runs(p) /\ procs[p].pc = "start_scan"
    /\ LET pids == get_wazuh_apid_pids(p)
           rec == [Step(procs[p], "start_scan") EXCEPT !.pids = pids]
       IN  procs' = [procs EXCEPT ![p] =
                IF pids # {} THEN Exited(rec, ConflictExitCode, "none", 0)
                ELSE [rec EXCEPT !.pc = "start_daemonize"]]
    /\ UNCHANGED <<cfgFile, files, results, nextPid, invoked, spawned>>

\* start that never drops its privileges
keep_privileges(rec) == rec

\* Lines 71-73: the privileges are dropped to ossec unless -r is given
drop_privileges(rec) == IF rec.args.root THEN rec ELSE Step(rec, "setuid")

\* start, lines 66-73: pyDaemon forks, the parent exits and the child carries on; then the
\* privileges are dropped
StartDaemonize(p) ==
    /\ Runs(p) /\ procs[p].pc = "start_daemonize"
    /\ IF procs[p].args.foreground
       THEN /\ procs' = [procs EXCEPT ![p] = [drop_privileges(procs[p]) EXCEPT !.pc = "start_config"]]
            /\ UNCHANGED nextPid
       ELSE /\ procs' = [q \in Pids \cup {nextPid} |->
                    IF q = nextPid
                    THEN [drop_privileges(Step(procs[p], "fork"))
                            EXCEPT !.role = "daemon", !.pc = "start_config"]
                    ELSE IF q = p THEN Exited(Step(procs[p], "fork"), 0, "none", 0)
                    ELSE procs[q]]
            /\ nextPid' = nextPid + 1
    /\ UNCHANGED <<cfgFile, files, results, invoked, spawned>>

\* start, lines 75-76: the configuration is resolved and, at the end of read_api_config
\* (lines 166-169), the key and the certificate are generated when they are needed
StartReadConfig(p) ==
    /\ Runs(p) /\ procs[p].pc = "start_config"
    /\ LET r == read_api_config(cfgFile, files)
           resolved == Step(procs[p], "config")
           rec == IF r.files = files THEN resolved
                  ELSE [Step(resolved, "bootstrap") EXCEPT !.wrote = @ \cup Changed(files, r.files)]
       IN  /\ files' = r.files
           /\ procs' = [procs EXCEPT ![p] =
                IF r.res.status # "ok" THEN Exited(rec, 1, r.res.status, r.res.code)
                ELSE [rec EXCEPT !.cfg = r.res.config, !.pc = "start_logging"]]
    /\ UNCHANGED <<cfgFile, results, nextPid, invoked, spawned>>

\* start, lines 78-83: the loggers open logs/api.log, whose owner and mode are then set
StartSetLogging(p) ==
    /\ Runs(p) /\ procs[p].pc = "start_logging"
    /\ files' = write_file(files, LogFilePath, "log")
    /\ procs' = [procs EXCEPT ![p] =
            [Step(procs[p], "log") EXCEPT !.wrote = @ \cup {LogFilePath}, !.pc = "start_https"]]
    /\ UNCHANGED <<cfgFile, results, nextPid, invoked, spawned>>

\* ssl.SSLContext().load_verify_locations and load_cert_chain, lines 117-122:
\* "ok" or the exception raised
load_ssl_context(https, fs) ==
    IF Truthy(https["use_ca"]) /\ ~exists(fs, https["ca"].v) THEN "IOError"
    ELSE IF ~exists(fs, https["cert"].v) \/ ~exists(fs, https["key"].v) THEN "IOError"
    ELSE IF fs[https["cert"].v] # fs[https["key"].v] THEN "SSLError"
    ELSE "ok"

\* start swallowing the exceptions of lines 123-129 and serving without a TLS context
StartRunWithoutContext(p) ==
    /\ Runs(p) /\ procs[p].pc = "start_https"
    /\ LET https == procs[p].cfg["https"].m
           rec == Step(Step(procs[p], "tls"), "run")
       IN  procs' = [procs EXCEPT ![p] =
                IF Truthy(https["enabled"]) /\ load_ssl_context(https, files) = "ok"
                THEN [rec EXCEPT !.ssl = "loaded", !.pc = "serving"]
                ELSE [rec EXCEPT !.ssl = "none", !.pc = "serving"]]
    /\ UNCHANGED <<cfgFile, files, results, nextPid, invoked, spawned>>

\* start, lines 85-138: the application is built, the TLS context configured and app.run
\* called: the framework serves until the process ends
StartRun(p) ==
    /\ Runs(p) /\ procs[p].pc = "start_https"
    /\ LET https == procs[p].cfg["https"].m
           rec == Step(procs[p], "tls")
       IN  procs' = [procs EXCEPT ![p] =
                IF ~Truthy(https["enabled"])
                THEN [Step(rec, "run") EXCEPT !.ssl = "none", !.pc = "serving"]
                ELSE IF load_ssl_context(https, files) = "ok"
                THEN [Step(rec, "run") EXCEPT !.ssl = "loaded", !.pc = "serving"]
                ELSE Exited(rec, 1, "APIException", TLSErrorCode)]
    /\ UNCHANGED <<cfgFile, files, results, nextPid, invoked, spawned>>

\* proc.terminate() / proc.kill(): the signal is pending on the target until it exits
Signalled(q, sig) == [procs EXCEPT ![q].sig = IF @ = "kill" THEN "kill" ELSE sig]

\* stop without the test of line 151: None is not iterable
StopScanWithoutGuard(p) ==
    /\ Runs(p) /\ procs[p].pc = "stop_scan"
    /\ LET pids == get_wazuh_apid_pids(p)
           rec == [Step(procs[p], "stop_scan") EXCEPT !.pids = pids]
       IN  procs' = [procs EXCEPT ![p] =
                IF pids # {} THEN [rec EXCEPT !.pc = "stop_lookup"]
                ELSE Exited(rec, 1, "TypeError", 0)]
    /\ UNCHANGED <<cfgFile, files, results, nextPid, invoked, spawned>>

\* stop, lines 150-151
StopScan(p) ==
    /\ Runs(p) /\ procs[p].pc = "stop_scan"
    /\ LET pids == get_wazuh_apid_pids(p)
           rec == [Step(procs[p], "stop_scan") EXCEPT !.pids = pids]
       IN  procs' = [procs EXCEPT ![p] =
                [rec EXCEPT !.pc = IF pids # {} THEN "stop_lookup" ELSE "stop_return"]]
    /\ UNCHANGED <<cfgFile, files, results, nextPid, invoked, spawned>>

\* stop, line 152: psutil.Process(pid) raises NoSuchProcess for a pid that is gone
StopLookup(p) ==
    /\ Runs(p) /\ procs[p].pc = "stop_lookup"
    /\ procs' = [procs EXCEPT ![p] =
            IF \E q \in procs[p].pids : ~Alive(q)
            THEN Exited(procs[p], 1, "NoSuchProcess", 0)
            ELSE [procs[p] EXCEPT !.todo = SortedSeq(procs[p].pids), !.pc = "stop_terminate"]]
    /\ UNCHANGED <<cfgFile, files, results, nextPid, invoked, spawned>>

\* stop, lines 153-154, one turn of the loop
StopTerminate(p) ==
    /\ Runs(p) /\ procs[p].pc = "stop_terminate"
    /\ LET q == Head(procs[p].todo)
           rest == Tail(procs[p].todo)
       IN  procs' =
            IF ~Alive(q)
            THEN [procs EXCEPT ![p] = Exited(procs[p], 1, "NoSuchProcess", 0)]
            ELSE [Signalled(q, "term") EXCEPT ![p] =
                    [procs[p] EXCEPT !.termSent = @ \cup {q}, !.todo = rest,
                                     !.pc = IF rest = <<>> THEN "stop_wait" ELSE "stop_terminate"]]
    /\ UNCHANGED <<cfgFile, files, results, nextPid, invoked, spawned>>

\* stop, line 155: wait_procs returns once every process is gone, or when its timeout is
\* over with the processes that are still running then
StopWait(p) ==
    /\ Runs(p) /\ procs[p].pc = "stop_wait"
    /\ LET alive == {q \in procs[p].pids : Alive(q)}
       IN  procs' = [procs EXCEPT ![p] =
                [Step(procs[p], "stop_wait") EXCEPT !.aliveAfter = alive, !.todo = SortedSeq(alive),
                    !.pc = IF alive = {} THEN "stop_return" ELSE "stop_kill"]]
    /\ UNCHANGED <<cfgFile, files, results, nextPid, invoked, spawned>>

\* stop, lines 156-157, one turn of the loop
StopKill(p) ==
    /\ Runs(p) /\ procs[p].pc = "stop_kill"
    /\ LET q == Head(procs[p].todo)
           rest == Tail(procs[p].todo)
       IN  procs' =
            IF ~Alive(q)
            THEN [procs EXCEPT ![p] = Exited(procs[p], 1, "NoSuchProcess", 0)]
            ELSE [Signalled(q, "kill") EXCEPT ![p] =
                    [procs[p] EXCEPT !.killSent = @ \cup {q}, !.todo = rest,
                                     !.pc = IF rest = <<>> THEN "stop_return" ELSE "stop_kill"]]
    /\ UNCHANGED <<cfgFile, files, results, nextPid, invoked, spawned>>

\* stop returns, and its local variables are gone: to restart (lines 174-175), or to the
\* end of the script
StopReturn(p) ==
    /\ Runs(p) /\ procs[p].pc = "stop_return"
    /\ procs' = [procs EXCEPT ![p] =
            IF procs[p].args.action = "restart"
            THEN [Step(procs[p], "stop_return") EXCEPT !.pc = "start_scan",
                    !.pids = {}, !.todo = <<>>, !.aliveAfter = {},
                    !.termSent = {}, !.killSent = {}]
            ELSE Exited(Step(procs[p], "stop_return"), 0, "none", 0)]
    /\ UNCHANGED <<cfgFile, files, results, nextPid, invoked, spawned>>

\* status, lines 179-190: a stopped service has its log read
Status(p) ==
    /\ Runs(p) /\ procs[p].pc = "status"
    /\ LET pids == get_wazuh_apid_pids(p)
           rec == [Step(procs[p], "status") EXCEPT !.pids = pids]
       IN  procs' = [procs EXCEPT ![p] =
                IF pids = {} /\ ~exists(files, LogFilePath)
                THEN Exited(rec, 1, "FileNotFoundError", 0)
                ELSE Exited(rec, 0, "none", 0)]
    /\ UNCHANGED <<cfgFile, files, results, nextPid, invoked, spawned>>

\* test_config, lines 212-228
TestConfig(p) ==
    /\ Runs(p) /\ procs[p].pc = "test_config"
    /\ LET r == read_api_config(cfgFile, files)
           rec == [Step(procs[p], "config") EXCEPT !.wrote = @ \cup Changed(files, r.files)]
       IN  /\ files' = r.files
           /\ procs' = [procs EXCEPT ![p] =
                Exited(rec, IF r.res.status = "ok" THEN 0 ELSE 1, "none", 0)]
    /\ UNCHANGED <<cfgFile, results, nextPid, invoked, spawned>>

\* version, lines 231-236
Version(p) ==
    /\ Runs(p) /\ procs[p].pc = "version"
    /\ procs' = [procs EXCEPT ![p] = Exited(Step(procs[p], "version"), 0, "none", 0)]
    /\ UNCHANGED <<cfgFile, files, results, nextPid, invoked, spawned>>

\* The other programs that run throughout, which the scan tells from the service: an editor
\* with the script open (by the process name) and an interpreter running another script (by
\* the command line).  They hold the first pids.
Bystanders == << <<"vim", TRUE>>, <<"python3", FALSE>> >>

\* A program that the scan takes for the service is started: python3 with 'wazuh-apid.py'
\* in its command line.  These programs have pids of their own, below the commands'.
SpawnOther ==
    /\ Collected
    /\ spawned < MaxOthers
    /\ spawned' = spawned + 1
    /\ LET pid == Len(Bystanders) + spawned + 1
       IN  procs' = [q \in Pids \cup {pid} |->
                IF q = pid THEN NewProc("python3", TRUE, "other", "other", NoArgs) ELSE procs[q]]
    /\ UNCHANGED <<cfgFile, files, results, nextPid, invoked>>

\* A process ends: a serving daemon or a program taken for it at any time, any process once
\* a signal is pending on it
ProcessExit(q) ==
    /\ Runs(q)
    /\ \/ procs[q].pc = "serving"
       \/ procs[q].pc = "other" /\ procs[q].name = "python3" /\ procs[q].script
       \/ procs[q].sig # "none"
    /\ procs' = [procs EXCEPT ![q] =
            Exited(procs[q], IF procs[q].sig = "kill" THEN -9
                             ELSE IF procs[q].sig = "term" THEN -15 ELSE 0, "none", 0)]
    /\ UNCHANGED <<cfgFile, files, results, nextPid, invoked, spawned>>

\* The parent of a process that has ended collects its exit status: the entry leaves the table
Reap(q) ==
    /\ q \in Pids /\ ~procs[q].alive
    /\ procs' = [r \in Pids \ {q} |-> procs[r]]
    /\ UNCHANGED <<cfgFile, files, results, nextPid, invoked, spawned>>

\* The override file and the credential files the daemon is started on: no override,
\* HTTPS switched off, a key path of the operator's own, an unknown key
DaemonSetups ==
    LET none == [kind |-> "absent", doc |-> EmptyMap]
        off == [kind |-> "doc", doc |-> [k \in {"https"} |-> Map([j \in {"enabled"} |-> Bool(FALSE)])]]
        own == [kind |-> "doc", doc |-> [k \in {"https"} |->
                                Map([j \in {"key"} |-> Str(<<"Custom", "Server.KEY">>)])]]
        bad == [kind |-> "doc", doc |-> [k \in {"bogus"} |-> Num("1")]]
        matched == [f \in {DefaultKeyPath, DefaultCertPath} |-> "pairA"]
        mismatched == [f \in {DefaultKeyPath, DefaultCertPath} |->
                            IF f = DefaultKeyPath THEN "pairA" ELSE "pairB"]
    IN  {<<none, EmptyMap>>, <<none, matched>>, <<none, mismatched>>,
         <<off, EmptyMap>>, <<own, matched>>, <<bad, EmptyMap>>}

Init ==
    /\ \E setup \in DaemonSetups : cfgFile = setup[1] /\ files = setup[2]
    /\ results = <<>>
    /\ procs = [q \in DOMAIN Bystanders |->
                    NewProc(Bystanders[q][1], Bystanders[q][2], "other", "other", NoArgs)]
    /\ nextPid = Len(Bystanders) + MaxOthers + 1
    /\ invoked = 0
    /\ spawned = 0

Next ==
    \/ InvokeSequential
    \/ \E p \in Pids : StartScan(p)
    \/ \E p \in Pids : StartDaemonize(p)
    \/ \E p \in Pids : StartReadConfig(p)
    \/ \E p \in Pids : StartSetLogging(p)
    \/ \E p \in Pids : StartRun(p)
    \/ \E p \in Pids : StopScan(p)
    \/ \E p \in Pids : StopLookup(p)
    \/ \E p \in Pids : StopTerminate(p)
    \/ \E p \in Pids : StopWait(p)
    \/ \E p \in Pids : StopKill(p)
    \/ \E p \in Pids : StopReturn(p)
    \/ \E p \in Pids : Status(p)
    \/ \E p \in Pids : TestConfig(p)
    \/ \E p \in Pids : Version(p)
    \/ SpawnOther
    \/ \E q \in Pids : ProcessExit(q)
    \/ \E q \in Pids : Reap(q)

Spec == Init /\ [][Next]_vars

----------------------------------------------------------------------------
(* Starts that run at the same time.  For the commands run one after another the scan is  *)
(* one step, since no command forks or exits while another one scans.  Here it is the loop *)
(* of lines 205-208: process_iter lists the pids, then each listed process is read.        *)

LockFilePath == path_join(ossec_path, <<"var", "run", "wazuh-apid.lock">>)

\* `wazuh-apid.py start [-f]`, typed while other commands run
StartCommandLines == {a \in CommandLines : a.action = "start" /\ ~a.test_config /\ ~a.root}

InvokeConcurrent ==
    /\ invoked < MaxInvocations
    /\ invoked' = invoked + 1
    /\ \E args \in StartCommandLines :
            procs' = [q \in Pids \cup {nextPid} |->
                        IF q = nextPid THEN NewProc("python3", TRUE, "cli", "start_list", args)
                        ELSE procs[q]]
    /\ nextPid' = nextPid + 1
    /\ UNCHANGED <<cfgFile, files, results, spawned>>

\* Line 205: process_iter takes the list of the pids there are
StartListPids(p) ==
    /\ Runs(p) /\ procs[p].pc = "start_list"
    /\ procs' = [procs EXCEPT ![p] = [procs[p] EXCEPT !.todo = SortedSeq(Pids), !.pc = "start_read"]]
    /\ UNCHANGED <<cfgFile, files, results, nextPid, invoked, spawned>>

\* A start that holds a lock file from its scan on
StartReadPidsUnderLock(p) ==
    /\ Runs(p) /\ procs[p].pc = "start_read"
    /\ LET listed == {q \in Range(procs[p].todo) : Alive(q)}
           pids == listed \cap get_wazuh_apid_pids(p)
           rec == [Step(procs[p], "start_scan") EXCEPT !.pids = pids, !.todo = <<>>]
       IN  IF pids # {} \/ exists(files, LockFilePath)
           THEN /\ procs' = [procs EXCEPT ![p] = Exited(rec, ConflictExitCode, "none", 0)]
                /\ UNCHANGED files
           ELSE /\ procs' = [procs EXCEPT ![p] =
                        [rec EXCEPT !.wrote = @ \cup {LockFilePath}, !.pc = "start_daemonize"]]
                /\ files' = write_file(files, LockFilePath, "lock")
    /\ UNCHANGED <<cfgFile, results, nextPid, invoked, spawned>>

\* Lines 205-209 and 61-64: the listed processes are read.  One that has ended since the
\* list was taken is skipped by process_iter, or makes cmdline() raise NoSuchProcess; one
\* started since is not looked at.
StartReadPids(p) ==
    /\ Runs(p) /\ procs[p].pc = "start_read"
    /\ LET listed == {q \in Range(procs[p].todo) : Alive(q)}
           gone == Range(procs[p].todo) \ listed
           pids == listed \cap get_wazuh_apid_pids(p)
           rec == [Step(procs[p], "start_scan") EXCEPT !.pids = pids, !.todo = <<>>]
       IN  \/ procs' = [procs EXCEPT ![p] =
                    IF pids # {} THEN Exited(rec, ConflictExitCode, "none", 0)
                    ELSE [rec EXCEPT !.pc = "start_daemonize"]]
           \/ /\ gone # {}
              /\ procs' = [procs EXCEPT ![p] = Exited(rec, 1, "NoSuchProcess", 0)]
    /\ UNCHANGED <<cfgFile, files, results, nextPid, invoked, spawned>>

NextRace ==
    \/ InvokeConcurrent
    \/ \E p \in Pids : StartListPids(p)
    \/ \E p \in Pids : StartReadPids(p)
    \/ \E p \in Pids : StartDaemonize(p)
    \/ \E p \in Pids : StartReadConfig(p)
    \/ \E p \in Pids : StartSetLogging(p)
    \/ \E p \in Pids : StartRun(p)
    \/ \E q \in Pids : ProcessExit(q)
    \/ \E q \in Pids : Reap(q)

SpecRace == Init /\ [][NextRace]_vars

----------------------------------------------------------------------------
(* Properties of the daemon controller, checked under Spec *)

Done(rec) == Range(rec.steps)

LaterSteps == {"fork", "setuid", "config", "log", "tls", "run"}

\* C1: a start whose scan finds another instance exits with status 2 and does none of its
\* later steps: no fork, no privilege drop, no configuration read, no file written, no launch.
C1_SingletonConflictAborts ==
    \A p \in Pids :
        "start_scan" \in Done(procs[p]) /\ procs[p].pids # {} =>
            /\ ~procs[p].alive
            /\ procs[p].code = ConflictExitCode
            /\ Done(procs[p]) \cap LaterSteps = {}
            /\ procs[p].wrote = {}

C1_Witness ==
    \E p \in Pids :
        /\ "start_scan" \in Done(procs[p]) /\ procs[p].pids # {}
        /\ procs[p].code = ConflictExitCode
        /\ \E q \in procs[p].pids : Alive(q) /\ procs[q].pc = "serving"

Running == {p \in Pids : procs[p].alive /\ procs[p].pc = "serving"}

\* C2: with the commands run one after another, at most one instance of the service is
\* running in every reachable state.
C2_AtMostOneRunning == Cardinality(Running) <= 1

C2_Witness ==
    \E p \in Running : \E q \in Pids :
        /\ procs[q].args.action \in {"start", "restart"}
        /\ procs[q].code = ConflictExitCode
        /\ p \in procs[q].pids

\* stop has ended: it has returned, or an exception has left it
StopEnded(rec) ==
    /\ "stop_scan" \in Done(rec)
    /\ rec.pc = "stop_return" \/ (rec.pc = "exited" /\ rec.args.action = "stop")
                              \/ (rec.pc = "exited" /\ rec.err = "NoSuchProcess")

\* C3: stop signals the scanned set (never its own pid) and nothing else; every member still
\* running has been sent the termination signal and, having outlived the grace period, the
\* forced kill; no member that exited in time is sent the forced kill.
C3_StopSignalsScannedSet ==
    \A p \in Pids :
        StopEnded(procs[p]) =>
            /\ p \notin procs[p].pids
            /\ procs[p].termSent \subseteq procs[p].pids
            /\ procs[p].killSent \subseteq procs[p].aliveAfter
            /\ \A q \in procs[p].pids : Alive(q) => q \in procs[p].termSent /\ q \in procs[p].killSent

\* The same, for the stops that no exception has left
StopSignalsScannedSetUnlessRaised ==
    \A p \in Pids :
        StopEnded(procs[p]) /\ procs[p].err = "none" =>
            /\ p \notin procs[p].pids
            /\ procs[p].termSent = procs[p].pids
            /\ procs[p].killSent = procs[p].aliveAfter
            /\ \A q \in procs[p].pids : Alive(q) => q \in procs[p].killSent

\* C4: a scanned pid that has died before it is looked up or signalled does not make stop
\* fail, and the other members still running are still sent the termination signal.
C4_StopToleratesDeadPid ==
    \A p \in Pids :
        StopEnded(procs[p]) =>
            /\ procs[p].err # "NoSuchProcess"
            /\ \A q \in procs[p].pids : Alive(q) => q \in procs[p].termSent

ConfigErrors == {"APIException", "TypeError", "KeyError", "YAMLError"}

\* C5: a start that has handed off to the framework with https.enabled true has loaded a TLS
\* context from the configured key and certificate files, which exist and belong together;
\* a start that met a configuration or credential error has ended without launching.
C5_NoLaunchWithoutCredentials ==
    \A p \in Pids :
        /\ "run" \in Done(procs[p]) /\ Truthy(procs[p].cfg["https"].m["enabled"]) =>
                /\ procs[p].ssl = "loaded"
                /\ exists(files, procs[p].cfg["https"].m["key"].v)
                /\ exists(files, procs[p].cfg["https"].m["cert"].v)
                /\ files[procs[p].cfg["https"].m["key"].v] = files[procs[p].cfg["https"].m["cert"].v]
        /\ procs[p].err \in ConfigErrors /\ procs[p].args.action \in {"start", "restart"} =>
                ~procs[p].alive /\ procs[p].code # 0 /\ "run" \notin Done(procs[p])

C5_Witness ==
    \E p \in Running :
        /\ Truthy(procs[p].cfg["https"].m["enabled"]) /\ procs[p].ssl = "loaded"
        /\ "generated" \in Range(files)

\* A start that a credential error has ended
CredentialErrorReached ==
    \E q \in Pids : procs[q].err = "APIException" /\ procs[q].errcode = TLSErrorCode

\* C7: test_config exits 0 when the resolution succeeds and 1 when it fails, and writes no
\* file: it generates no key and no certificate.
C7_TestConfigHasNoSideEffects ==
    \A p \in Pids :
        procs[p].args.action = "test_config" /\ ~procs[p].alive =>
            /\ procs[p].code = IF read_api_config(cfgFile, files).res.status = "ok" THEN 0 ELSE 1
            /\ procs[p].wrote = {}

\* C8: a command line with -t only validates the configuration, whatever its action: it
\* never reaches the singleton check, the fork, the privilege drop or the launch, and it
\* exits 0 or 1.
C8_TestFlagOnlyValidates ==
    \A p \in Pids :
        procs[p].args.test_config =>
            /\ Done(procs[p]) \subseteq {"config"}
            /\ ~procs[p].alive => procs[p].code \in {0, 1}

----------------------------------------------------------------------------
(* Properties of the configuration resolver, checked under SpecResolve *)

UnknownKeys == DOMAIN cfgFile.doc \ DOMAIN default_configuration

\* C6: the credential bootstrap writes nothing when HTTPS is disabled or when the configured
\* key and certificate both exist; otherwise it generates both, and the configured key file
\* and the configured certificate file exist afterwards.
C6_BootstrapLeavesConfiguredFiles ==
    \A i \in DOMAIN results :
        results[i].res.status = "ok" =>
            LET https == results[i].res.config["https"].m
                key == https["key"].v
                cert == https["cert"].v
                skip == \/ ~Truthy(https["enabled"])
                        \/ exists(results[i].before, key) /\ exists(results[i].before, cert)
            IN  IF skip THEN results[i].after = results[i].before
                ELSE /\ exists(results[i].after, key) /\ results[i].after[key] = "generated"
                     /\ exists(results[i].after, cert) /\ results[i].after[cert] = "generated"

\* The same for the configurations that keep the default key and certificate paths
BootstrapLeavesDefaultFiles ==
    \A i \in DOMAIN results :
        /\ results[i].res.status = "ok"
        /\ results[i].res.config["https"].m["key"].v = DefaultKeyPath
        /\ results[i].res.config["https"].m["cert"].v = DefaultCertPath
        => LET skip == \/ ~Truthy(results[i].res.config["https"].m["enabled"])
                       \/ /\ exists(results[i].before, DefaultKeyPath)
                          /\ exists(results[i].before, DefaultCertPath)
           IN  IF skip THEN results[i].after = results[i].before
               ELSE /\ exists(results[i].after, DefaultKeyPath)
                    /\ exists(results[i].after, DefaultCertPath)
                    /\ results[i].after[DefaultKeyPath] = "generated"
                    /\ results[i].after[DefaultCertPath] = "generated"

\* C9: an override whose top-level keys are all keys of the defaults resolves, whatever the
\* type of its values, to a document with exactly the top-level keys of the defaults.
C9_KnownKeysResolve ==
    \A i \in DOMAIN results :
        cfgFile.kind = "doc" /\ UnknownKeys = {} =>
            /\ results[i].res.status = "ok"
            /\ DOMAIN results[i].res.config = DOMAIN default_configuration

\* C10: an override with a top-level key that the defaults do not have fails with error 2000,
\* whose details are exactly the override's keys missing from the defaults, and no
\* configuration is returned.
C10_UnknownKeysAreNamed ==
    \A i \in DOMAIN results :
        cfgFile.kind = "doc" /\ UnknownKeys # {} =>
            /\ results[i].res.status = "APIException"
            /\ results[i].res.code = UnknownKeyCode
            /\ results[i].res.details = UnknownKeys
            /\ results[i].res.config = EmptyMap

C10_Witness ==
    /\ cfgFile.kind = "doc"
    /\ UnknownKeys # {} /\ UnknownKeys # DOMAIN cfgFile.doc
    /\ results # <<>> /\ results[1].res.details = UnknownKeys

----------------------------------------------------------------------------
(* Properties of the resolved document, checked under SpecResolve *)

IsRooted(path) ==
    /\ Len(path) >= Len(ossec_path)
    /\ SubSeq(path, 1, Len(ossec_path)) = ossec_path

PathLeaves == Range(path_fields)

\* The default document with its four path leaves under the installation base directory
ResolvedDefaults ==
    [default_configuration EXCEPT
        !["logs"] = Map([@.m EXCEPT !["path"] = Str(<<"/", "var", "ossec", "logs", "api.log">>)]),
        !["https"] = Map([@.m EXCEPT
            !["key"] = Str(<<"/", "var", "ossec", "api", "configuration", "ssl", "server.key">>),
            !["cert"] = Str(<<"/", "var", "ossec", "api", "configuration", "ssl", "server.crt">>),
            !["ca"] = Str(<<"/", "var", "ossec", "api", "configuration", "ssl", "ca.crt">>)])]

\* C11: after every successful resolution each of logs.path, https.key, https.cert and
\* https.ca is an absolute path under the installation base directory, whatever the
\* override gave for it.
C11_PathsRootedAtBase ==
    \A i \in DOMAIN results :
        results[i].res.status = "ok" =>
            \A f \in PathLeaves : IsRooted(results[i].res.config[f[1]].m[f[2]].v)

\* The path leaves the override gives as absolute paths
AbsoluteLeaves(doc) ==
    {f \in PathLeaves :
        /\ f[1] \in DOMAIN doc /\ doc[f[1]].tag = "map"
        /\ f[2] \in DOMAIN doc[f[1]].m /\ doc[f[1]].m[f[2]].tag = "str"
        /\ doc[f[1]].m[f[2]].v # <<>> /\ doc[f[1]].m[f[2]].v[1] = "/"}

\* The same for the overrides that give no absolute path
RelativePathsRootedAtBase ==
    \A i \in DOMAIN results :
        results[i].res.status = "ok" /\ AbsoluteLeaves(cfgFile.doc) = {} =>
            \A f \in PathLeaves : IsRooted(results[i].res.config[f[1]].m[f[2]].v)

\* The override {"port": 9999, "HTTPS": {"Enabled": False}}
ExampleOverride ==
    [k \in {"port", "HTTPS"} |->
        IF k = "port" THEN Num("9999") ELSE Map([j \in {"Enabled"} |-> Bool(FALSE)])]

\* C12: the override {"port": 9999, "HTTPS": {"Enabled": False}} resolves to the defaults
\* with port 9999 and https.enabled false: its keys are matched whatever their letter case.
C12_ExampleResolves ==
    \A i \in DOMAIN results :
        cfgFile.kind = "doc" /\ cfgFile.doc = ExampleOverride =>
            /\ results[i].res.status = "ok"
            /\ results[i].res.config =
                [ResolvedDefaults EXCEPT
                    !["port"] = Num("9999"),
                    !["https"] = Map([@.m EXCEPT !["enabled"] = Bool(FALSE)])]

NullResolved ==
    /\ cfgFile.kind = "null"
    /\ results # <<>> /\ results[1].res = Return(ResolvedDefaults)

\* C17: every string leaf of the override that is no path leaf is lowercased, at the top
\* level and inside nested mappings; booleans and numbers are unchanged; the path leaves the
\* override gives keep their letter case.
C17_LowercaseSparesPathLeaves ==
    \A i \in DOMAIN results :
        results[i].res.status = "ok" /\ cfgFile.kind = "doc" =>
            LET O == cfgFile.doc
                R == results[i].res.config
            IN  \A k \in DOMAIN O :
                    CASE O[k].tag = "str" -> R[k] = Str(lower(O[k].v))
                      [] O[k].tag = "map" ->
                            \A j \in DOMAIN O[k].m :
                                IF <<k, j>> \in PathLeaves
                                THEN R[k].m[j] = Str(path_join(ossec_path, O[k].m[j].v))
                                ELSE IF O[k].m[j].tag = "str"
                                THEN R[k].m[j] = Str(lower(O[k].m[j].v))
                                ELSE R[k].m[j] = O[k].m[j]
                      [] OTHER -> R[k] = O[k]

\* The same without the path leaves
OtherLeavesLowercased ==
    \A i \in DOMAIN results :
        results[i].res.status = "ok" /\ cfgFile.kind = "doc" =>
            LET O == cfgFile.doc
                R == results[i].res.config
            IN  \A k \in DOMAIN O :
                    CASE O[k].tag = "str" -> R[k] = Str(lower(O[k].v))
                      [] O[k].tag = "map" ->
                            \A j \in DOMAIN O[k].m :
                                \/ <<k, j>> \in PathLeaves
                                \/ R[k].m[j] = IF O[k].m[j].tag = "str"
                                               THEN Str(lower(O[k].m[j].v)) ELSE O[k].m[j]
                      [] OTHER -> R[k] = O[k]

\* A leaf as the path rewrite leaves it
Rewritten(k, j, leaf) ==
    IF <<k, j>> \in PathLeaves THEN Str(path_join(ossec_path, leaf.v)) ELSE leaf

\* C18: in a successful resolution of the override O (as normalised by dict_to_lowercase)
\* over the defaults D, each field of a nested mapping O gives takes O's value when O has it
\* and D's otherwise, a scalar key of O takes O's value, and a key O does not give keeps
\* D's, apart from the path rewrite.
C18_OverrideTakesPrecedence ==
    \A i \in DOMAIN results :
        results[i].res.status = "ok" /\ cfgFile.kind = "doc" =>
            LET O == dict_to_lowercase(cfgFile.doc)
                D == default_configuration
                R == results[i].res.config
            IN  \A k \in DOMAIN D :
                    IF k \in DOMAIN O /\ O[k].tag = "map"
                    THEN /\ R[k].tag = "map"
                         /\ DOMAIN R[k].m = DOMAIN D[k].m \cup DOMAIN O[k].m
                         /\ \A j \in DOMAIN R[k].m :
                                R[k].m[j] = Rewritten(k, j, IF j \in DOMAIN O[k].m THEN O[k].m[j]
                                                            ELSE D[k].m[j])
                    ELSE IF k \in DOMAIN O THEN R[k] = O[k]
                    ELSE R[k] = ResolvedDefaults[k]

C18_Witness ==
    /\ cfgFile.kind = "doc"
    /\ DOMAIN cfgFile.doc = {"port", "https"}
    /\ cfgFile.doc["https"].tag = "map" /\ DOMAIN cfgFile.doc["https"].m = {"enabled"}
    /\ cfgFile.doc["https"].m["enabled"] = Bool(FALSE)
    /\ results # <<>> /\ results[1].res.status = "ok"
    /\ results[1].res.config["port"] = Num("9999")
    /\ results[1].res.config["https"].m["enabled"] = Bool(FALSE)
    /\ results[1].res.config["https"].m["key"].v = DefaultKeyPath

\* C19: an override file that cannot be read and one that cannot be parsed both fail with
\* error 2004; no configuration is returned and no credential is generated.
C19_LoadFailuresAreIOFailure ==
    \A i \in DOMAIN results :
        cfgFile.kind \in {"ioerror", "yamlerror"} =>
            /\ results[i].res.status = "APIException"
            /\ results[i].res.code = IOFailureCode
            /\ results[i].res.config = EmptyMap
            /\ results[i].after = results[i].before

\* The same for the file that cannot be read
ReadFailureIsIOFailure ==
    \A i \in DOMAIN results :
        cfgFile.kind = "ioerror" =>
            /\ results[i].res.status = "APIException"
            /\ results[i].res.code = IOFailureCode
            /\ results[i].res.config = EmptyMap
            /\ results[i].after = results[i].before

----------------------------------------------------------------------------
(* Further properties of the daemon controller *)

\* The stages of start in the order of lines 61-138
Stages == <<"start_scan", "fork", "setuid", "config", "bootstrap", "log", "tls", "run">>

\* The stages of start a process has gone through, in the order it did
StartSteps(rec) ==
    LET IsStage(name) == name \in Range(Stages)
    IN  SelectSeq(rec.steps, IsStage)

\* C14: a start goes through its stages in this order: singleton check, fork (unless -f),
\* privilege drop (unless -r), configuration resolution, credential bootstrap, log setup,
\* launch; no stage is skipped on the way, and the privileges are dropped before any file
\* is written.
C14_StagesInOrder ==
    \A p \in Pids :
        procs[p].args.action \in {"start", "restart"} =>
            LET st == StartSteps(procs[p])
                done == Range(st)
                IsDone(name) == name \in done
            IN  /\ st = SelectSeq(Stages, IsDone)
                /\ "config" \in done =>
                        /\ "start_scan" \in done
                        /\ "fork" \in done <=> ~procs[p].args.foreground
                        /\ "setuid" \in done <=> ~procs[p].args.root
                /\ "bootstrap" \in done \/ "log" \in done => "config" \in done
                /\ "tls" \in done => "log" \in done
                /\ "run" \in done => "tls" \in done
                /\ procs[p].wrote # {} => procs[p].args.root \/ "setuid" \in done

C14_Witness ==
    \E p \in Running : StartSteps(procs[p]) = Stages

\* C15: a stop whose scan finds nothing signals no process, does not wait, raises nothing
\* and returns; the script ends with status 0.
C15_StopOnEmptySetIsNoOp ==
    \A p \in Pids :
        StopEnded(procs[p]) /\ procs[p].pids = {} =>
            /\ procs[p].termSent = {} /\ procs[p].killSent = {}
            /\ "stop_wait" \notin Done(procs[p])
            /\ procs[p].err = "none"
            /\ procs[p].pc = "exited" => procs[p].code = 0 /\ "stop_return" \in Done(procs[p])

C15_Witness ==
    \E p \in Pids :
        /\ procs[p].args.action = "stop" /\ ~procs[p].args.test_config
        /\ procs[p].pc = "exited" /\ procs[p].code = 0
        /\ procs[p].steps = <<"stop_scan", "stop_return">>
        /\ procs[p].pids = {}

\* C20: when stop returns none of the processes it found is still running, and a restart
\* does not end with status 2 because of a process its stop has signalled.
C20_StopLeavesNoneRunning ==
    \A p \in Pids :
        /\ procs[p].pc = "stop_return" => \A q \in procs[p].pids : ~Alive(q)
        /\ procs[p].args.action = "restart" /\ procs[p].pc = "exited"
            /\ procs[p].code = ConflictExitCode =>
                \A q \in procs[p].pids : procs[q].sig = "none"

\* What does hold when stop returns: a process it found that is still running has the
\* forced kill pending
StopLeavesOnlyKilledRunning ==
    \A p \in Pids :
        procs[p].pc = "stop_return" =>
            \A q \in procs[p].pids : Alive(q) => procs[q].sig = "kill" /\ q \in procs[p].killSent

\* A restart that the instance it was stopping has made end with status 2
RestartConflictReached ==
    \E p \in Pids :
        /\ procs[p].args.action = "restart" /\ procs[p].code = ConflictExitCode
        /\ \E q \in procs[p].pids : procs[q].sig = "kill"

----------------------------------------------------------------------------
(* Properties of the starts that run at the same time, checked under SpecRace *)

\* C16: start takes no lock: before it reads the configuration it has written no file, and
\* a start that has passed the check has seen no other instance in its own scan, which is
\* all that decides; two starts can each see nothing and both end up serving.
C16_StartTakesNoLock ==
    \A p \in Pids :
        /\ "config" \notin Done(procs[p]) => procs[p].wrote = {}
        /\ "start_scan" \in Done(procs[p]) /\ procs[p].alive => procs[p].pids = {}
        /\ ~exists(files, LockFilePath)

C16_Witness ==
    /\ Cardinality(Running) = 2
    /\ \A p \in Running : "start_scan" \in Done(procs[p]) /\ procs[p].pids = {}

====
